---- MODULE Spec2Model ----
(***************************************************************************)
(* The "/graphql" handler of examples/graphql-jit/server.ts: a tiny-lru    *)
(* cache of per-query-text artifacts (document, validationErrors,          *)
(* compiledQuery) consulted once per request, the parse / validate /       *)
(* execute callbacks that fill it, and the dispatch of the processRequest  *)
(* result (RESPONSE, PUSH, anything else).                                 *)
(*                                                                         *)
(* processRequest itself (graphql-helix core) and the PUSH result's        *)
(* subscribe / unsubscribe are not part of the example's source; they are  *)
(* modelled from the design document (sections 4.2 to 4.4, 5 and 6).       *)
(***************************************************************************)
EXTENDS Naturals, Sequences, FiniteSets

\* ------------------------------------------------------------------ bounds

\* Number of requests the server receives, numbered in arrival order.
MaxRequests == 4
\* Requests sent where they may overlap or carry any text.
MaxArrivals == 3
\* lru(1000, 3600000): capacity and time-to-live (in clock ticks), scaled
\* down.
MaxEntries == 2
Ttl == 1
\* "close" events delivered on one request object.
MaxCloseSignals == 2
\* Values the subscription's producer yields before it completes.
MaxEvents == 2
\* Requests running processRequest at the same time.
MaxInFlight == 2
\* Subscription requests, where only these are sent.
MaxSessions == 1

Requests == 1..MaxRequests

\* ------------------------------------------------------------- the inputs

\* JavaScript's undefined, for a local, a field or a request parameter.
Undefined == [kind |-> "undefined"]

\* Query texts.  "" is the empty query string: it is falsy, so the cache
\* key it gives is "" as well, and it does not parse.
Texts == {"", "invalid", "hello", "nojit", "sub", "defer", "multi"}

\* The texts of subscription operations.  A "close" event on any other
\* request finds no listener and changes nothing.
Subscriptions == {"sub"}

\* Texts that parse, more of them than the cache has room for.
EvictionTexts == {"hello", "defer", "nojit", "invalid"}

\* What getGraphQLParameters extracts from one request.
Inputs ==
    {[query |-> t, operationName |-> "undefined"] : t \in Texts \ {"multi"}}
        \cup {[query |-> "multi", operationName |-> o] : o \in {"A", "B"}}

\* ------------------------------------------- the collaborators (pure)

\* graphql's parse: throws a syntax error on malformed text.
ParseThrows(source) == source = ""

Parse(source) == [kind |-> "Document", source |-> source]

\* graphql's validate: the ordered list of validation errors.
Validate(documentAST) ==
    [kind |-> "ValidationErrors",
     errors |-> IF documentAST.source = "invalid" THEN <<"e1", "e2">> ELSE <<>>]

\* graphql-jit's compileQuery: a compiled query (it has a query function)
\* or an execution result carrying the compilation errors.
CompileQuery(documentAst, operationName) ==
    IF documentAst.source = "nojit"
    THEN [kind |-> "CompileError", source |-> documentAst.source,
          operationName |-> operationName]
    ELSE [kind |-> "CompiledQuery", source |-> documentAst.source,
          operationName |-> operationName]

IsCompiledQuery(compiledQuery) == compiledQuery.kind = "CompiledQuery"

\* compiledQuery.query(rootValue, contextValue, variables): a value, or an
\* asynchronous sequence of values.
QueryOutcome(compiledQuery) ==
    CASE compiledQuery.source = "sub" -> "stream"
      [] compiledQuery.source = "defer" -> "incremental"
      [] OTHER -> "value"

\* The values a subscription's producer yields, in order.
Produced(n) == [i \in 1..n |-> [value |-> i]]

\* ------------------------------------------------------ tiny-lru (line 13)

\* The cache is the list of its items, least recently used first.  An item
\* carries its age, the ticks since it was created, in place of the absolute
\* expiry (creation time + ttl): it has expired when expiry <= now, that is
\* when age >= Ttl.
Keys(c) == {c[i].key : i \in 1..Len(c)}

Has(c, key) == key \in Keys(c)

IndexOf(c, key) == CHOOSE i \in 1..Len(c) : c[i].key = key

Without(c, i) == SubSeq(c, 1, i - 1) \o SubSeq(c, i + 1, Len(c))

\* LruSet evicting the most recently used item.
LruSet_EvictsNewest(c, key, value) ==
    IF Has(c, key)
    THEN LET i == IndexOf(c, key)
         IN  Append(Without(c, i), [c[i] EXCEPT !.value = value])
    ELSE LET room == IF Len(c) = MaxEntries THEN SubSeq(c, 1, Len(c) - 1) ELSE c
         IN  Append(room, [key |-> key, value |-> value, age |-> 0])

\* LruGet with no time-to-live: an item is returned however old it is.
LruGet_NeverExpires(c, key) ==
    IF ~Has(c, key)
    THEN [value |-> Undefined, cache |-> c]
    ELSE LET i == IndexOf(c, key)
         IN  [value |-> c[i].value, cache |-> Append(Without(c, i), c[i])]

\* set(key, value): an existing item gets the value and becomes the most
\* recently used, its expiry unchanged; a new item evicts the least recently
\* used one when the cache is full and expires Ttl after its creation.
LruSet(c, key, value) ==
    IF Has(c, key)
    THEN LET i == IndexOf(c, key)
         IN  Append(Without(c, i), [c[i] EXCEPT !.value = value])
    ELSE LET room == IF Len(c) = MaxEntries THEN Tail(c) ELSE c
         IN  Append(room, [key |-> key, value |-> value, age |-> 0])

\* get(key): an expired item is deleted and nothing is returned; a live one
\* is returned and becomes the most recently used.
LruGet(c, key) ==
    IF ~Has(c, key)
    THEN [value |-> Undefined, cache |-> c]
    ELSE LET i == IndexOf(c, key)
         IN  IF c[i].age >= Ttl
             THEN [value |-> Undefined, cache |-> Without(c, i)]
             ELSE [value |-> c[i].value, cache |-> Append(Without(c, i), c[i])]

\* The object literals the callbacks store, a field left out being undefined.
Entry(document, validationErrors, compiledQuery) ==
    [document |-> document, validationErrors |-> validationErrors,
     compiledQuery |-> compiledQuery]

\* cached?.field
Field(cached, name) == IF cached = Undefined THEN Undefined ELSE cached[name]

\* cacheKey = query || "": a query string is its own key (the empty string
\* gives the key "" either way).
CacheKey(query) == IF query = "" THEN "" ELSE query

\* ------------------------------------------------------------------ state

VARIABLES
    cache,            \* the tiny-lru cache shared by all requests
    pc,               \* where each request's handler is
    params,           \* operationName and query of each request
    cached,           \* const cached = cache.get(cacheKey)
    document,         \* let document
    validationErrors, \* let validationErrors
    compiledQuery,    \* let compiledQuery
    result,           \* what processRequest resolved to
    res,              \* what the handler did to the response
    producer,         \* the asynchronous sequence behind a PUSH result
    closeListener,    \* whether req.on("close", ...) has been called
    closeSignals,     \* "close" events emitted on each request
    calls,            \* invocations of the collaborators, per query text
    hist              \* what happened to each request and each key

vars == <<cache, pc, params, cached, document, validationErrors,
          compiledQuery, result, res, producer, closeListener, closeSignals,
          calls, hist>>

NoResult == [type |-> "NONE"]

NoProducer == [state |-> "none", yielded |-> 0, returnCalls |-> 0, released |-> 0]

NoRes == [head |-> FALSE, status |-> 0, body |-> Undefined, events |-> <<>>,
          ended |-> FALSE]

Stages == {"parse", "validate", "compile"}

\* History, kept for the properties only.  Of a request in the pipeline:
\* the collaborators its callbacks invoked, the number of its cache.set
\* calls, and the stages whose artifact had been stored under its key when
\* it read the cache.  Of a key: whether two requests for it overlapped,
\* whether its item was ever evicted or found expired, the stages stored under it
\* since its item was created, and the plans its requests were given.  Of
\* the cache: the keys it holds in the order of their last use (a get that
\* found the item, or a set), the keys a set has evicted, and the ticks
\* since the last set of each key it holds.  Of a stream:
\* the runs of the "close" listener, the events written when it first ran,
\* and the errors that left the listener uncaught.
NoHist ==
    [invoked |-> [r \in Requests |-> {}],
     wrote |-> [r \in Requests |-> 0],
     sawStored |-> [r \in Requests |-> {}],
     overlapped |-> {},
     dropped |-> {},
     stored |-> [t \in Texts |-> {}],
     plans |-> [t \in Texts |-> {}],
     used |-> <<>>,
     evicted |-> {},
     sinceWrite |-> [t \in Texts |-> 0],
     handled |-> [r \in Requests |-> 0],
     eventsAtClose |-> [r \in Requests |-> 0],
     uncaught |-> [r \in Requests |-> 0]]

Init ==
    /\ cache = <<>>
    /\ pc = [r \in Requests |-> "idle"]
    /\ params = [r \in Requests |-> [query |-> "", operationName |-> "undefined"]]
    /\ cached = [r \in Requests |-> Undefined]
    /\ document = [r \in Requests |-> Undefined]
    /\ validationErrors = [r \in Requests |-> Undefined]
    /\ compiledQuery = [r \in Requests |-> Undefined]
    /\ result = [r \in Requests |-> NoResult]
    /\ res = [r \in Requests |-> NoRes]
    /\ producer = [r \in Requests |-> NoProducer]
    /\ closeListener = [r \in Requests |-> FALSE]
    /\ closeSignals = [r \in Requests |-> 0]
    /\ calls = [t \in Texts |-> [s \in Stages |-> 0]]
    /\ hist = NoHist

\* ------------------------------------------------- the three callbacks

\* ParseCallback caching the failure too: a later request finds a document
\* and does not parse again.
ParseCallback_NegativeCache(doc, c, source, key) ==
    IF doc # Undefined
    THEN [threw |-> doc.kind = "SyntaxError", invoked |-> FALSE,
          document |-> doc, cache |-> c]
    ELSE IF ParseThrows(source)
         THEN [threw |-> TRUE, invoked |-> TRUE, document |-> doc,
               cache |-> LruSet(c, key,
                                Entry([kind |-> "SyntaxError", source |-> source],
                                      Undefined, Undefined))]
         ELSE [threw |-> FALSE, invoked |-> TRUE, document |-> Parse(source),
               cache |-> LruSet(c, key,
                                Entry(Parse(source), Undefined, Undefined))]

\* ParseCallback without its guard: it parses and stores on every request.
ParseCallback_NoGuard(doc, c, source, key) ==
    IF ParseThrows(source)
    THEN [threw |-> TRUE, invoked |-> TRUE, document |-> doc, cache |-> c]
    ELSE [threw |-> FALSE, invoked |-> TRUE, document |-> Parse(source),
          cache |-> LruSet(c, key,
                           Entry(Parse(source), Undefined, Undefined))]

\* parse: (source, options) => { if (!document) { document = parse(...);
\* cache.set(cacheKey, { document }) } return document }.  A throw of parse
\* leaves document and the cache as they were.
ParseCallback(doc, c, source, key) ==
    IF doc # Undefined
    THEN [threw |-> FALSE, invoked |-> FALSE, document |-> doc, cache |-> c]
    ELSE IF ParseThrows(source)
         THEN [threw |-> TRUE, invoked |-> TRUE, document |-> doc, cache |-> c]
         ELSE [threw |-> FALSE, invoked |-> TRUE, document |-> Parse(source),
               cache |-> LruSet(c, key,
                                Entry(Parse(source), Undefined, Undefined))]

\* ValidateCallback without its guard: it validates on every request.
ValidateCallback_NoGuard(verrs, doc, c, documentAST, key) ==
    [invoked |-> TRUE, validationErrors |-> Validate(documentAST),
     cache |-> LruSet(c, key, Entry(doc, Validate(documentAST), Undefined))]

\* ValidateCallback returning no error when the errors come from the cache.
ValidateCallback_ForgetsCached(verrs, doc, c, documentAST, key) ==
    IF verrs # Undefined
    THEN [invoked |-> FALSE,
          validationErrors |-> [kind |-> "ValidationErrors", errors |-> <<>>],
          cache |-> c]
    ELSE [invoked |-> TRUE, validationErrors |-> Validate(documentAST),
          cache |-> LruSet(c, key,
                           Entry(doc, Validate(documentAST), Undefined))]

\* validate: if (!validationErrors) { validationErrors = validate(...);
\* cache.set(cacheKey, { document, validationErrors }) }
ValidateCallback(verrs, doc, c, documentAST, key) ==
    IF verrs # Undefined
    THEN [invoked |-> FALSE, validationErrors |-> verrs, cache |-> c]
    ELSE [invoked |-> TRUE, validationErrors |-> Validate(documentAST),
          cache |-> LruSet(c, key,
                           Entry(doc, Validate(documentAST), Undefined))]

\* ExecuteCallback without the isCompiledQuery test: whatever compileQuery
\* gave is run.
ExecuteCallback_RunsAnything(cq, doc, verrs, c, documentAst, operationName, key) ==
    LET compiled == IF cq = Undefined
                    THEN CompileQuery(documentAst, operationName)
                    ELSE cq
    IN  [invoked |-> cq = Undefined,
         compiledQuery |-> compiled,
         cache |-> IF cq = Undefined
                   THEN LruSet(c, key, Entry(doc, verrs, compiled))
                   ELSE c,
         ran |-> TRUE,
         returned |-> [kind |-> QueryOutcome(compiled),
                       data |-> <<compiled.source, compiled.operationName>>]]

\* ExecuteCallback storing the plan alone.
ExecuteCallback_StoresPlanOnly(cq, doc, verrs, c, documentAst, operationName, key) ==
    LET compiled == IF cq = Undefined
                    THEN CompileQuery(documentAst, operationName)
                    ELSE cq
    IN  [invoked |-> cq = Undefined,
         compiledQuery |-> compiled,
         cache |-> IF cq = Undefined
                   THEN LruSet(c, key, Entry(Undefined, Undefined, compiled))
                   ELSE c,
         ran |-> IsCompiledQuery(compiled),
         returned |-> IF IsCompiledQuery(compiled)
                      THEN [kind |-> QueryOutcome(compiled),
                            data |-> <<compiled.source, compiled.operationName>>]
                      ELSE compiled]

\* execute: if (!compiledQuery) { compiledQuery = compileQuery(...);
\* cache.set(cacheKey, { compiledQuery, document, validationErrors }) }
\* then the compiled query is run, and anything else is returned as it is.
ExecuteCallback(cq, doc, verrs, c, documentAst, operationName, key) ==
    LET compiled == IF cq = Undefined
                    THEN CompileQuery(documentAst, operationName)
                    ELSE cq
    IN  [invoked |-> cq = Undefined,
         compiledQuery |-> compiled,
         cache |-> IF cq = Undefined
                   THEN LruSet(c, key, Entry(doc, verrs, compiled))
                   ELSE c,
         ran |-> IsCompiledQuery(compiled),
         returned |-> IF IsCompiledQuery(compiled)
                      THEN [kind |-> QueryOutcome(compiled),
                            data |-> <<compiled.source, compiled.operationName>>]
                      ELSE compiled]

\* ------------------------------------------- processRequest's results

SyntaxError(source) == [kind |-> "SyntaxError", source |-> source]

Response(status, payload) ==
    [type |-> "RESPONSE", status |-> status, payload |-> payload]

\* The classification of what execute returned.
Classify(returned) ==
    CASE returned.kind = "stream" -> [type |-> "PUSH"]
      [] returned.kind = "incremental" -> [type |-> "MULTIPART_RESPONSE"]
      [] returned.kind = "CompileError" -> Response(400, returned)
      [] OTHER -> Response(200, returned)

\* ---------------------------------------------------------- bookkeeping

InPipeline(r) == pc[r] \in {"parse", "validate", "execute", "dispatch"}

KeyOf(r) == CacheKey(params[r].query)

\* The keys whose item a cache operation removed (eviction or expiry).
Removed(c, c2) == Keys(c) \ Keys(c2)

\* The order of last use after `key` was used, and after `gone` were removed.
Touch(used, key) == Append(SelectSeq(used, LAMBDA k : k # key), key)

Forget(used, gone) == SelectSeq(used, LAMBDA k : k \notin gone)

\* hist after a cache operation of request r that stored the artifacts of
\* `stages` (none for a read) for `key`.
Track(h, r, key, c, c2, stages, invoked) ==
    [h EXCEPT
       !.dropped = @ \cup Removed(c, c2),
       !.used = IF stages = {} THEN Forget(@, Removed(c, c2))
                ELSE Touch(Forget(@, Removed(c, c2)), key),
       !.evicted = IF stages = {} THEN @ ELSE @ \cup Removed(c, c2),
       !.sinceWrite = [t \in Texts |->
                         IF t \in Removed(c, c2) \/ (t = key /\ stages # {})
                         THEN 0 ELSE @[t]],
       !.stored = [t \in Texts |->
                     IF t \in Removed(c, c2) THEN {}
                     ELSE IF t = key THEN @[t] \cup stages ELSE @[t]],
       !.wrote[r] = IF stages = {} THEN @ ELSE @ + 1,
       !.invoked[r] = @ \cup invoked]

Count(text, stage, did) ==
    [calls EXCEPT ![text][stage] = IF did THEN @ + 1 ELSE @]

\* ------------------------------------------------------------ the handler

\* Lines 20 to 36: the request arrives, the cache is read once and the three
\* locals are taken from what it returned; processRequest is called.
Start(r, in) ==
    /\ pc[r] = "idle"
    /\ \A q \in Requests : q < r => pc[q] # "idle"
    /\ Cardinality({q \in Requests : InPipeline(q)}) < MaxInFlight
    /\ LET key == CacheKey(in.query)
           got == LruGet(cache, key)
           h == Track(hist, r, key, cache, got.cache, {}, {})
       IN  /\ cache' = got.cache
           /\ cached' = [cached EXCEPT ![r] = got.value]
           /\ compiledQuery' =
                  [compiledQuery EXCEPT ![r] = Field(got.value, "compiledQuery")]
           /\ document' = [document EXCEPT ![r] = Field(got.value, "document")]
           /\ validationErrors' =
                  [validationErrors EXCEPT
                     ![r] = Field(got.value, "validationErrors")]
           /\ hist' = [h EXCEPT
                         !.overlapped =
                             IF \E q \in Requests \ {r} :
                                    InPipeline(q) /\ KeyOf(q) = key
                             THEN @ \cup {key} ELSE @,
                         !.used = IF got.value = Undefined THEN @
                                  ELSE Touch(@, key),
                         !.sawStored[r] = h.stored[key]]
    /\ params' = [params EXCEPT ![r] = in]
    /\ pc' = [pc EXCEPT ![r] = "parse"]
    /\ UNCHANGED <<result, res, producer, closeListener, closeSignals, calls>>

\* processRequest parses the query through the parse callback; a syntax
\* error ends the pipeline with a 400 response.
ParseStep(r) ==
    /\ pc[r] = "parse"
    /\ LET source == params[r].query
           out == ParseCallback(document[r], cache, source, KeyOf(r))
       IN  /\ document' = [document EXCEPT ![r] = out.document]
           /\ cache' = out.cache
           /\ calls' = Count(source, "parse", out.invoked)
           /\ hist' = Track(hist, r, KeyOf(r), cache, out.cache,
                            IF out.invoked /\ ~out.threw THEN {"parse"} ELSE {},
                            IF out.invoked THEN {"parse"} ELSE {})
           /\ IF out.threw
              THEN /\ result' = [result EXCEPT
                                   ![r] = Response(400,
                                            [errors |-> <<SyntaxError(source)>>])]
                   /\ pc' = [pc EXCEPT ![r] = "dispatch"]
              ELSE /\ pc' = [pc EXCEPT ![r] = "validate"]
                   /\ UNCHANGED result
    /\ UNCHANGED <<params, cached, validationErrors, compiledQuery, res,
                   producer, closeListener, closeSignals>>

\* processRequest validates the document through the validate callback; one
\* or more errors end the pipeline with a 400 response listing them all.
ValidateStep(r) ==
    /\ pc[r] = "validate"
    /\ LET out == ValidateCallback(validationErrors[r], document[r], cache,
                                   document[r], KeyOf(r))
       IN  /\ validationErrors' =
                  [validationErrors EXCEPT ![r] = out.validationErrors]
           /\ cache' = out.cache
           /\ calls' = Count(params[r].query, "validate", out.invoked)
           /\ hist' = Track(hist, r, KeyOf(r), cache, out.cache,
                            IF out.invoked THEN {"parse", "validate"} ELSE {},
                            IF out.invoked THEN {"validate"} ELSE {})
           /\ IF Len(out.validationErrors.errors) > 0
              THEN /\ result' = [result EXCEPT
                                   ![r] = Response(400,
                                            [errors |-> out.validationErrors.errors])]
                   /\ pc' = [pc EXCEPT ![r] = "dispatch"]
              ELSE /\ pc' = [pc EXCEPT ![r] = "execute"]
                   /\ UNCHANGED result
    /\ UNCHANGED <<params, cached, document, compiledQuery, res, producer,
                   closeListener, closeSignals>>

\* processRequest executes through the execute callback and classifies what
\* it returned.
ExecuteStep(r) ==
    /\ pc[r] = "execute"
    /\ LET out == ExecuteCallback(compiledQuery[r], document[r],
                                  validationErrors[r], cache, document[r],
                                  params[r].operationName, KeyOf(r))
           text == params[r].query
       IN  /\ compiledQuery' = [compiledQuery EXCEPT ![r] = out.compiledQuery]
           /\ cache' = out.cache
           /\ calls' = Count(text, "compile", out.invoked)
           /\ hist' = [Track(hist, r, KeyOf(r), cache, out.cache,
                             IF out.invoked
                             THEN {"parse", "validate", "compile"} ELSE {},
                             (IF out.invoked THEN {"compile"} ELSE {})
                                 \cup (IF out.ran THEN {"query"} ELSE {}))
                          EXCEPT !.plans[text] = @ \cup {out.compiledQuery}]
           /\ result' = [result EXCEPT ![r] = Classify(out.returned)]
           /\ producer' = [producer EXCEPT
                             ![r] = IF Classify(out.returned).type = "PUSH"
                                    THEN [@ EXCEPT !.state = "active"] ELSE @]
    /\ pc' = [pc EXCEPT ![r] = "dispatch"]
    /\ UNCHANGED <<params, cached, document, validationErrors, res,
                   closeListener, closeSignals>>

\* Lines 91 to 111: what the handler does with the result.  A RESPONSE is
\* sent whole; a PUSH opens the event stream; for anything else the branch
\* is empty.
HandleResult(rs, response) ==
    CASE rs.type = "RESPONSE" ->
             [response EXCEPT !.head = TRUE, !.status = rs.status,
                              !.body = rs.payload, !.ended = TRUE]
      [] rs.type = "PUSH" -> [response EXCEPT !.head = TRUE, !.status = 200]
      [] OTHER -> response

\* OnResult putting the new event in front of those written before.
OnResult_InFront(response, value) ==
    [response EXCEPT
       !.events = <<<<"data: ", [json |-> value], "\n\n">>>> \o @]

\* The callback given to subscribe: res.write(`data: ${JSON.stringify(result)}\n\n`)
OnResult(response, value) ==
    [response EXCEPT
       !.events = Append(@, <<"data: ", [json |-> value], "\n\n">>)]

\* result.unsubscribe(): the producer is asked to stop; one that is still
\* active stops and releases what it holds, any other is left as it is.
Unsubscribe(p) ==
    [p EXCEPT !.returnCalls = @ + 1,
              !.state = IF @ = "active" THEN "cancelled" ELSE @,
              !.released = IF p.state = "active" THEN @ + 1 ELSE @]

\* result.unsubscribe() raising an error: the call was made, and the
\* producer has stopped or not by the time it fails.
UnsubscribeThrows(p, stopped) ==
    IF stopped THEN Unsubscribe(p) ELSE [p EXCEPT !.returnCalls = @ + 1]

\* A listener that unsubscribes twice.
OnClose_Twice(p) == Unsubscribe(Unsubscribe(p))

\* A listener that does not unsubscribe.
OnClose_Nothing(p) == p

\* The "close" listener: () => { result.unsubscribe() }
OnClose(p) == Unsubscribe(p)

\* Whether an error raised by result.unsubscribe() leaves the listener:
\* its body is the bare call, with no try / catch around it.
LeavesListener(threw) == threw

\* await processRequest(...) resumes the handler.
Dispatch(r) ==
    /\ pc[r] = "dispatch"
    /\ res' = [res EXCEPT ![r] = HandleResult(result[r], @)]
    /\ closeListener' = [closeListener EXCEPT ![r] = result[r].type = "PUSH"]
    /\ pc' = [pc EXCEPT ![r] = IF result[r].type = "PUSH" THEN "streaming"
                               ELSE "done"]
    \* No callback runs again: the locals are dead.
    /\ cached' = [cached EXCEPT ![r] = Undefined]
    /\ document' = [document EXCEPT ![r] = Undefined]
    /\ validationErrors' = [validationErrors EXCEPT ![r] = Undefined]
    /\ compiledQuery' = [compiledQuery EXCEPT ![r] = Undefined]
    /\ hist' = [hist EXCEPT !.invoked[r] = {}, !.wrote[r] = 0,
                            !.sawStored[r] = {}]
    /\ UNCHANGED <<cache, params, result, producer, closeSignals, calls>>

\* The producer yields its next value and subscribe hands it to the callback.
Emit(r) ==
    /\ pc[r] = "streaming"
    /\ producer[r].state = "active"
    /\ producer[r].yielded < MaxEvents
    /\ producer' = [producer EXCEPT ![r].yielded = @ + 1]
    /\ res' = [res EXCEPT
                 ![r] = OnResult(@, Produced(MaxEvents)[producer[r].yielded + 1])]
    /\ UNCHANGED <<cache, pc, params, cached, document, validationErrors,
                   compiledQuery, result, closeListener, closeSignals, calls,
                   hist>>

\* The producer's sequence ends by itself.
Complete(r) ==
    /\ pc[r] = "streaming"
    /\ producer[r].state = "active"
    /\ producer' = [producer EXCEPT ![r].state = "completed",
                                    ![r].released = @ + 1]
    /\ UNCHANGED <<cache, pc, params, cached, document, validationErrors,
                   compiledQuery, result, res, closeListener, closeSignals,
                   calls, hist>>

\* await result.subscribe(...) resumes once the sequence is over; the handler
\* returns.
SubscribeReturns(r) ==
    /\ pc[r] = "streaming"
    /\ producer[r].state \in {"completed", "cancelled"}
    /\ pc' = [pc EXCEPT ![r] = "done"]
    /\ UNCHANGED <<cache, params, cached, document, validationErrors,
                   compiledQuery, result, res, producer, closeListener,
                   closeSignals, calls, hist>>

\* The request object emits "close"; the listener runs if there is one.
CloseSignal(r) ==
    /\ pc[r] # "idle"
    /\ params[r].query \in Subscriptions
    /\ closeSignals[r] < MaxCloseSignals
    /\ closeSignals' = [closeSignals EXCEPT ![r] = @ + 1]
    /\ IF closeListener[r]
       THEN /\ producer' = [producer EXCEPT ![r] = OnClose(@)]
            /\ hist' = [hist EXCEPT
                          !.handled[r] = @ + 1,
                          !.eventsAtClose[r] =
                              IF hist.handled[r] = 0
                              THEN Len(res[r].events) ELSE @]
       ELSE UNCHANGED <<producer, hist>>
    /\ UNCHANGED <<cache, pc, params, cached, document, validationErrors,
                   compiledQuery, result, res, closeListener, calls>>

\* The request object emits "close" and the listener's unsubscribe call
\* raises an error.
CloseSignalFails(r, stopped) ==
    /\ pc[r] # "idle"
    /\ params[r].query \in Subscriptions
    /\ closeSignals[r] < MaxCloseSignals
    /\ closeListener[r]
    /\ closeSignals' = [closeSignals EXCEPT ![r] = @ + 1]
    /\ producer' = [producer EXCEPT ![r] = UnsubscribeThrows(@, stopped)]
    /\ hist' = [hist EXCEPT
                  !.handled[r] = @ + 1,
                  !.eventsAtClose[r] =
                      IF hist.handled[r] = 0 THEN Len(res[r].events) ELSE @,
                  !.uncaught[r] = IF LeavesListener(TRUE) THEN @ + 1 ELSE @]
    /\ UNCHANGED <<cache, pc, params, cached, document, validationErrors,
                   compiledQuery, result, res, closeListener, calls>>

\* Time passes: one tick of the clock.  Ages stop at Ttl, where an item has
\* expired for good.
Tick ==
    /\ \E i \in 1..Len(cache) :
           cache[i].age < Ttl \/ hist.sinceWrite[cache[i].key] < Ttl
    /\ cache' = [i \in 1..Len(cache) |->
                    [cache[i] EXCEPT !.age = IF @ < Ttl THEN @ + 1 ELSE @]]
    /\ hist' = [hist EXCEPT
                  !.sinceWrite = [t \in Texts |->
                                    IF Has(cache, t) /\ @[t] < Ttl
                                    THEN @[t] + 1 ELSE @[t]]]
    /\ UNCHANGED <<pc, params, cached, document, validationErrors,
                   compiledQuery, result, res, producer, closeListener,
                   closeSignals, calls>>

Next ==
    \/ \E r \in Requests, in \in Inputs : Start(r, in)
    \/ \E r \in Requests : ParseStep(r)
    \/ \E r \in Requests : ValidateStep(r)
    \/ \E r \in Requests : ExecuteStep(r)
    \/ \E r \in Requests : Dispatch(r)
    \/ \E r \in Requests : Emit(r)
    \/ \E r \in Requests : Complete(r)
    \/ \E r \in Requests : SubscribeReturns(r)
    \/ \E r \in Requests : CloseSignal(r)
    \/ \E r \in Requests, stopped \in BOOLEAN : CloseSignalFails(r, stopped)
    \/ Tick

\* The whole server.  The specifications below are this one under a
\* restricted stream of requests; the properties are checked under them.
Spec == Init /\ [][Next]_vars

\* The server under requests that all carry one query text, none of them a
\* subscription, and may overlap, all within the time-to-live: the pipeline
\* under concurrent access to one key.
SameTextNext ==
    \/ \E r \in 1..MaxArrivals, in \in Inputs :
           /\ in.query \notin Subscriptions
           /\ \A q \in Requests : pc[q] # "idle" => params[q].query = in.query
           /\ Start(r, in)
    \/ \E r \in Requests : ParseStep(r)
    \/ \E r \in Requests : ValidateStep(r)
    \/ \E r \in Requests : ExecuteStep(r)
    \/ \E r \in Requests : Dispatch(r)

SpecSameText == Init /\ [][SameTextNext]_vars

\* The server under requests of any text but subscriptions, each arriving
\* when the one before has been answered: the cache under sequential
\* requests, eviction included.
SequentialNext ==
    \/ \E r \in 1..MaxArrivals, in \in Inputs :
           /\ in.query \notin Subscriptions
           /\ \A q \in Requests : ~InPipeline(q)
           /\ Start(r, in)
    \/ \E r \in Requests : ParseStep(r)
    \/ \E r \in Requests : ValidateStep(r)
    \/ \E r \in Requests : ExecuteStep(r)
    \/ \E r \in Requests : Dispatch(r)
    \/ Tick

SpecSequential == Init /\ [][SequentialNext]_vars

\* The server under sequential requests for texts that parse, more texts
\* than the cache has room for, all within the time-to-live: an item leaves
\* the cache by eviction only.
EvictionNext ==
    \/ \E r \in Requests, in \in Inputs :
           /\ in.query \in EvictionTexts
           /\ \A q \in Requests : ~InPipeline(q)
           /\ Start(r, in)
    \/ \E r \in Requests : ParseStep(r)
    \/ \E r \in Requests : ValidateStep(r)
    \/ \E r \in Requests : ExecuteStep(r)
    \/ \E r \in Requests : Dispatch(r)

SpecEviction == Init /\ [][EvictionNext]_vars

\* The server under subscription requests: the stream sessions.
StreamNext ==
    \/ \E r \in 1..MaxSessions, in \in Inputs :
           in.query \in Subscriptions /\ Start(r, in)
    \/ \E r \in Requests : ParseStep(r)
    \/ \E r \in Requests : ValidateStep(r)
    \/ \E r \in Requests : ExecuteStep(r)
    \/ \E r \in Requests : Dispatch(r)
    \/ \E r \in Requests : Emit(r)
    \/ \E r \in Requests : Complete(r)
    \/ \E r \in Requests : SubscribeReturns(r)
    \/ \E r \in Requests : CloseSignal(r)
    \/ Tick

SpecStream == Init /\ [][StreamNext]_vars

\* The stream sessions when result.unsubscribe() may raise an error.
FaultyStreamNext ==
    \/ StreamNext
    \/ \E r \in Requests, stopped \in BOOLEAN : CloseSignalFails(r, stopped)

SpecFaultyStream == Init /\ [][FaultyStreamNext]_vars

\* The stream sessions under the event loop's scheduling: a continuation of
\* the handler that is ready to run (a resolved await) is run.  Nothing is
\* assumed of the producer, the client or the clock.
FairSpecStream ==
    /\ SpecStream
    /\ \A r \in Requests :
           /\ WF_vars(ParseStep(r))
           /\ WF_vars(ValidateStep(r))
           /\ WF_vars(ExecuteStep(r))
           /\ WF_vars(Dispatch(r))
           /\ WF_vars(SubscribeReturns(r))

\* ------------------------------------------------------------ properties

Fields == {"document", "validationErrors", "compiledQuery"}

\* The artifact a stage produces.
ArtifactOf(stage) ==
    CASE stage = "parse" -> "document"
      [] stage = "validate" -> "validationErrors"
      [] stage = "compile" -> "compiledQuery"

ValueOf(c, key) == c[IndexOf(c, key)].value

\* The requests with text t that have arrived.
RequestsFor(t) == {r \in Requests : pc[r] # "idle" /\ params[r].query = t}

\* The requests with text t whose pipeline is over.
Finished(t) == {r \in RequestsFor(t) : pc[r] \notin {"parse", "validate", "execute"}}

\* A text that parses, validates and compiles, whatever the operation name.
GoodText(t) ==
    /\ ~ParseThrows(t)
    /\ Validate(Parse(t)).errors = <<>>
    /\ \A in \in Inputs :
           in.query = t => IsCompiledQuery(CompileQuery(Parse(t), in.operationName))

\* The requests for t never overlapped and its item was never evicted or
\* expired.
Undisturbed(t) == t \notin hist.overlapped /\ t \notin hist.dropped

\* C1: for a text that parses, validates and compiles, whose requests did
\* not overlap and whose item was neither evicted nor expired, parse,
\* validate and compileQuery are invoked at most once, exactly once as soon
\* as one request was executed, and all requests are given the same plan.
C1_IdempotentCaching ==
    \A t \in Texts :
        GoodText(t) /\ Undisturbed(t) =>
            /\ \A s \in Stages : calls[t][s] <= 1
            /\ Cardinality(hist.plans[t]) <= 1
            /\ hist.plans[t] # {} => \A s \in Stages : calls[t][s] = 1

C1_Witness ==
    \E t \in Texts :
        /\ GoodText(t) /\ Undisturbed(t)
        /\ Cardinality({r \in RequestsFor(t) : pc[r] = "done"}) >= 2
        /\ \A s \in Stages : calls[t][s] = 1

\* C2, as claimed: for every interleaving of the requests for a text, each
\* stage is computed at most once while the text's item lives (failed parses
\* excepted).
C2_AtMostOncePerText ==
    \A t \in Texts :
        t \notin hist.dropped =>
            \A s \in Stages :
                (s = "parse" /\ ParseThrows(t)) \/ calls[t][s] <= 1

\* C2, amended: a request computes a stage at most once, and only if the
\* entry it read when it arrived lacked that stage's artifact; requests for
\* a text that do not overlap compute each stage at most once while the
\* text's item lives.
C2_AtMostOncePerRequest ==
    /\ \A r \in Requests :
           \A s \in hist.invoked[r] \cap Stages :
               Field(cached[r], ArtifactOf(s)) = Undefined
    /\ \A t \in Texts :
           \A s \in Stages :
               /\ calls[t][s] <= Cardinality(RequestsFor(t))
               /\ Undisturbed(t) /\ ~ParseThrows(t) => calls[t][s] <= 1

C2_Witness ==
    \E t \in Texts :
        /\ t \notin hist.dropped
        /\ \A s \in Stages : calls[t][s] = 2

\* C3: a write to the cache merges and never clears: a field of a key's
\* entry that was populated before a step is populated with the same value
\* after it, unless the whole item was evicted or expired.
C3_WriteMergesNeverClears ==
    [][\A k \in Keys(cache) \cap Keys(cache') :
           \A f \in Fields :
               ValueOf(cache, k)[f] # Undefined =>
                   ValueOf(cache', k)[f] = ValueOf(cache, k)[f]]_vars

\* C4: a request whose text does not parse ends with the syntax error as a
\* 400 response and writes nothing to the cache; the cache never holds an
\* item for such a text, and every request with it invokes the parser.
C4_FailedParseRetry ==
    /\ \A t \in Texts :
           ParseThrows(t) =>
               /\ ~Has(cache, CacheKey(t))
               /\ calls[t]["parse"] = Cardinality(Finished(t))
    /\ \A r \in Requests :
           ParseThrows(params[r].query) =>
               /\ pc[r] = "dispatch" =>
                      /\ result[r] = Response(400,
                             [errors |-> <<SyntaxError(params[r].query)>>])
                      /\ hist.invoked[r] = {"parse"}
                      /\ hist.wrote[r] = 0
               /\ pc[r] = "done" =>
                      /\ res[r].status = 400
                      /\ res[r].body = [errors |-> <<SyntaxError(params[r].query)>>]

C4_Witness ==
    \E t \in Texts :
        /\ ParseThrows(t)
        /\ calls[t]["parse"] >= 2
        /\ Cardinality({r \in RequestsFor(t) : pc[r] = "done"}) >= 2

\* C5: once the validation of a text has yielded errors and they have been
\* stored, a request that arrives later for that text (its item not evicted
\* since) does not invoke the validator and reports the same errors, all of
\* them.
C5_ValidationFailureCached ==
    \A r \in Requests :
        LET errors == Validate(Parse(params[r].query)).errors
        IN  (InPipeline(r) /\ "validate" \in hist.sawStored[r] /\ Len(errors) > 0)
            => /\ "validate" \notin hist.invoked[r]
               /\ pc[r] = "dispatch" =>
                      result[r] = Response(400, [errors |-> errors])

\* C6: a plan that is a compilation error is stored when it is compiled,
\* is the payload of the response whether it was compiled by this request or
\* read from the cache, and is never run: the query function is invoked only
\* on a compiled query.
C6_CompileErrorNeverExecuted ==
    /\ [](\A r \in Requests :
              pc[r] = "dispatch" /\ compiledQuery[r] # Undefined =>
                  /\ "query" \in hist.invoked[r] <=> IsCompiledQuery(compiledQuery[r])
                  /\ ~IsCompiledQuery(compiledQuery[r]) =>
                         /\ result[r].type = "RESPONSE"
                         /\ result[r].payload = compiledQuery[r])
    /\ [][\A r \in Requests :
              (pc[r] = "execute" /\ pc'[r] = "dispatch"
                  /\ "compile" \in hist'.invoked[r])
              => /\ Has(cache', KeyOf(r))
                 /\ ValueOf(cache', KeyOf(r)).compiledQuery = compiledQuery'[r]]_vars

C6_Witness ==
    \E r \in Requests :
        /\ pc[r] = "dispatch"
        /\ compiledQuery[r] # Undefined
        /\ ~IsCompiledQuery(compiledQuery[r])
        /\ "compile" \notin hist.invoked[r]

\* C7: a request whose result is neither a RESPONSE nor a PUSH gets an
\* answer of its own: when its handler has returned, something has been
\* sent to the client.
C7_UnsupportedReported ==
    \A r \in Requests :
        pc[r] = "done" /\ result[r].type \notin {"RESPONSE", "PUSH"} =>
            res[r].head \/ res[r].ended \/ res[r].events # <<>>

\* The event one value is written as.
EventOf(value) == <<"data: ", [json |-> value], "\n\n">>

\* C8: at every moment the events written to the response are the values
\* the producer has yielded so far, one event per value, in the order they
\* were yielded.
C8_StreamOrdering ==
    \A r \in Requests :
        res[r].events =
            [i \in 1..producer[r].yielded |-> EventOf(Produced(MaxEvents)[i])]

C8_Witness ==
    \E r \in Requests :
        /\ producer[r].yielded = MaxEvents
        /\ Len(res[r].events) >= 2

\* C9: every "close" event that reaches a stream session makes exactly one
\* unsubscribe call, and no event is written to the response once the first
\* of them has been handled.
C9_CancellationOnDisconnect ==
    \A r \in Requests :
        /\ producer[r].returnCalls = hist.handled[r]
        /\ closeListener[r] /\ producer[r].state = "active" => hist.handled[r] = 0
        /\ hist.handled[r] > 0 => Len(res[r].events) = hist.eventsAtClose[r]

C9_Witness ==
    \E r \in Requests :
        /\ hist.handled[r] = 1
        /\ producer[r].state = "cancelled"
        /\ hist.eventsAtClose[r] = 1
        /\ pc[r] = "done"

C11_ClosedIsTerminal ==
    /\ [][\A r \in Requests :
              producer[r].state \in {"completed", "cancelled"} =>
                  /\ producer'[r].state = producer[r].state
                  /\ res'[r].events = res[r].events]_vars
    /\ \A r \in Requests :
           (producer[r].state = "completed") ~> res[r].ended

\* C12: the cache never holds more than MaxEntries items, one per key; a
\* step that inserts a new key into a full cache removes one item, the
\* least recently used, and no item is removed otherwise (none expiring); a
\* request for a key the
\* cache does not hold reads nothing from it and, when its pipeline is
\* over, has invoked the parser and, for a text that validates and
\* compiles, the validator and the compiler as well.
C12_EvictionRespectsCapacity ==
    /\ [](/\ Len(cache) <= MaxEntries
          /\ Cardinality(Keys(cache)) = Len(cache)
          /\ \A r \in Requests :
                 pc[r] = "dispatch" /\ cached[r] = Undefined =>
                     /\ "parse" \in hist.invoked[r]
                     /\ GoodText(params[r].query) => Stages \subseteq hist.invoked[r])
    /\ [][/\ Keys(cache') \ Keys(cache) = {} => Keys(cache) \subseteq Keys(cache')
          /\ Keys(cache') \ Keys(cache) # {} =>
                 IF Len(cache) = MaxEntries
                 THEN Keys(cache) \ Keys(cache') = {Head(hist.used)}
                 ELSE Keys(cache) \subseteq Keys(cache')
          /\ \A r \in Requests :
                 (pc[r] = "idle" /\ pc'[r] = "parse"
                     /\ ~Has(cache, KeyOf(r)'))
                 => cached'[r] = Undefined]_vars

C12_Witness ==
    \E r \in Requests :
        /\ pc[r] = "dispatch"
        /\ cached[r] = Undefined
        /\ KeyOf(r) \in hist.evicted
        /\ Stages \subseteq hist.invoked[r]
        /\ calls[params[r].query]["compile"] = 2
        /\ Len(cache) = MaxEntries
        /\ Len(hist.used) = MaxEntries

\* C13: a request that arrives when the last write of its key's item is Ttl
\* ticks old or older reads nothing from the cache, the item is deleted, and
\* the request invokes the parser and, for a text that validates and
\* compiles, the validator and the compiler; a request keeps the artifacts
\* it has read, whatever the age its key's item reaches while it runs, and
\* computes none of them again.
C13_TtlExpiration ==
    /\ [](\A r \in Requests :
              /\ pc[r] = "dispatch" /\ cached[r] = Undefined =>
                     /\ "parse" \in hist.invoked[r]
                     /\ GoodText(params[r].query) => Stages \subseteq hist.invoked[r]
              /\ InPipeline(r) =>
                     \A s \in Stages :
                         Field(cached[r], ArtifactOf(s)) # Undefined =>
                             /\ s \notin hist.invoked[r]
                             /\ pc[r] = "dispatch" /\ s = "compile" =>
                                    compiledQuery[r] = cached[r].compiledQuery)
    /\ [][\A r \in Requests :
              (pc[r] = "idle" /\ pc'[r] = "parse" /\ Has(cache, KeyOf(r)')
                  /\ hist.sinceWrite[KeyOf(r)'] >= Ttl)
              => /\ cached'[r] = Undefined
                 /\ ~Has(cache', KeyOf(r)')]_vars

C13_Witness ==
    \E r \in Requests :
        /\ pc[r] = "dispatch"
        /\ cached[r] = Undefined
        /\ KeyOf(r) \in hist.dropped
        /\ hist.evicted = {}
        /\ Stages \subseteq hist.invoked[r]
        /\ calls[params[r].query]["compile"] = 2

\* C14: an error raised by the unsubscribe call of a "close" listener stays
\* within the stream session: none ever leaves the listener uncaught.
C14_CancellationFailureContained ==
    \A r \in Requests : hist.uncaught[r] = 0

\* The entry under key k holds every one of the fields fs.
Holds(c, k, fs) ==
    Has(c, k) /\ \A f \in fs : ValueOf(c, k)[f] # Undefined

\* C15: when a request's parse stage is over, successfully, the entry of
\* its text holds the document; when its validation stage is over the entry
\* holds the validation errors as well; when its execution stage is over
\* the entry holds all three fields; and once every request for a text that
\* validates and compiles has been answered, the text's item never evicted
\* or expired, the entry holds all three fields.
C15_WrittenBackAfterEachStage ==
    /\ [][\A r \in Requests :
              /\ pc[r] = "parse" /\ pc'[r] = "validate" =>
                     Holds(cache', KeyOf(r), {"document"})
              /\ pc[r] = "validate" /\ pc'[r] \in {"execute", "dispatch"} =>
                     Holds(cache', KeyOf(r), {"document", "validationErrors"})
              /\ pc[r] = "execute" /\ pc'[r] = "dispatch" =>
                     Holds(cache', KeyOf(r), Fields)]_vars
    /\ [](\A t \in Texts :
              (/\ GoodText(t)
               /\ t \notin hist.dropped
               /\ RequestsFor(t) # {}
               /\ \A r \in RequestsFor(t) : pc[r] = "done")
              => Holds(cache, CacheKey(t), Fields))

\* C16: a request reaches the validation stage, and invokes the validator,
\* only with a document; it reaches the execution stage, and invokes the
\* compiler or runs a plan, only with a document and with validation
\* errors that are an empty list, computed or read from the cache; for a
\* text that does not parse the validator and the compiler are never
\* invoked, and for a text with validation errors the compiler is never
\* invoked and no request is given a plan.
C16_ShortCircuit ==
    /\ \A r \in Requests :
           InPipeline(r) =>
               /\ (pc[r] \in {"validate", "execute"} \/ "validate" \in hist.invoked[r])
                      => document[r] # Undefined
               /\ (pc[r] = "execute" \/ {"compile", "query"} \cap hist.invoked[r] # {})
                      => /\ document[r] # Undefined
                         /\ validationErrors[r] # Undefined
                         /\ validationErrors[r].errors = <<>>
    /\ \A t \in Texts :
           /\ ParseThrows(t) =>
                  /\ calls[t]["validate"] = 0
                  /\ calls[t]["compile"] = 0
                  /\ hist.plans[t] = {}
           /\ ~ParseThrows(t) /\ Validate(Parse(t)).errors # <<>> =>
                  /\ calls[t]["compile"] = 0
                  /\ hist.plans[t] = {}

C16_Witness ==
    \E r \in Requests :
        /\ pc[r] = "dispatch"
        /\ validationErrors[r] # Undefined
        /\ validationErrors[r].errors # <<>>
        /\ "validate" \notin hist.invoked[r]
        /\ result[r] = Response(400, [errors |-> validationErrors[r].errors])
        /\ calls[params[r].query]["compile"] = 0

\* What a request is answered when the cache is empty: the result of the
\* pipeline run on its own query and operation name.
Uncached(in) ==
    LET doc == Parse(in.query)
        out == ExecuteCallback(Undefined, doc, Validate(doc), <<>>, doc,
                               in.operationName, CacheKey(in.query))
    IN  Classify(out.returned)

\* C17: the plan a request executes is the one compileQuery yields for the
\* request's own document and operation name, and the request's result is
\* the one it gets when the cache is empty.
C17_CacheTransparency ==
    \A r \in Requests :
        pc[r] = "dispatch" /\ compiledQuery[r] # Undefined =>
            /\ compiledQuery[r] =
                   CompileQuery(Parse(params[r].query), params[r].operationName)
            /\ result[r] = Uncached(params[r])

\* C18: once a streaming request's client has disconnected, at whatever
\* point of the handler, no event is written to its response, and when the
\* handler has opened the event stream the producer is no longer active.
C18_DisconnectAtAnyPoint ==
    \A r \in Requests :
        closeSignals[r] > 0 =>
            /\ Len(res[r].events) =
                   IF hist.handled[r] > 0 THEN hist.eventsAtClose[r] ELSE 0
            /\ pc[r] \in {"streaming", "done"} => producer[r].state # "active"

\* C19: every item of the cache holds a document, the one its key parses
\* to; the validation errors it holds are those of that document; and it
\* holds a plan only together with validation errors that are an empty
\* list, the plan being one compileQuery yields for that document and an
\* operation name a request for the key can carry.
C19_EntryWellFormed ==
    \A i \in 1..Len(cache) :
        LET k == cache[i].key
            v == cache[i].value
        IN  /\ v.document = Parse(k)
            /\ v.validationErrors \in {Undefined, Validate(v.document)}
            /\ v.compiledQuery # Undefined =>
                   /\ v.validationErrors # Undefined
                   /\ v.validationErrors.errors = <<>>
                   /\ \E in \in Inputs :
                          /\ CacheKey(in.query) = k
                          /\ v.compiledQuery =
                                 CompileQuery(v.document, in.operationName)

C19_Witness ==
    \E t \in Texts :
        /\ calls[t]["compile"] >= 1
        /\ Has(cache, CacheKey(t))
        /\ ValueOf(cache, CacheKey(t)).validationErrors = Undefined
        /\ ValueOf(cache, CacheKey(t)).compiledQuery = Undefined
        /\ \E r \in RequestsFor(t) : pc[r] = "validate"
====
